---- MODULE Spec2Model ----
(***************************************************************************)
(* Monitoring-data ingestion and sustained-alert notification engine of    *)
(* the monitoring platform: mail/simple_alert.py, model/models.py and the  *)
(* threshold table of config/production.py.                                *)
(*                                                                         *)
(* Times are minutes.  Metric values are whole percents.  The table        *)
(* monitor_data is a bag of rows: the autoincrement id is left out because *)
(* no modelled operation reads it, and two rows that agree on every other  *)
(* column are two copies in the bag.  Rows are stamped with the host's     *)
(* local clock and the alert window is computed from the UTC clock; the    *)
(* offset between the two is drawn when the system starts.                 *)
(***************************************************************************)
EXTENDS Bags, FiniteSets, Integers, Sequences, TLC

VARIABLES
    servers,        \* table servers: set of rows [id, server_name, ip_address]
    users,          \* table users: set of rows [id, email]
    server_users,   \* association table: set of <<server_id, user_id>>
    monitor_data,   \* table monitor_data: bag of rows
    now,            \* the UTC clock, datetime.utcnow()
    tz,             \* offset of the host's local clock: datetime.now() = now + tz
    pc,             \* position of the request being served
    gw,             \* the ingestion request in progress
    call,           \* the check_and_send_alert_by_ip call in progress
    sus,            \* the last direct check_sustained_alert_by_ip call
    lv,             \* the last direct determine_alert_level call
    maint,          \* the last delete_old_data or Server.delete call, while
                    \* nothing else has happened since
    admin,          \* the server-management requests in progress
    server_seq,     \* the autoincrement sequence of table servers
    ingest,         \* the concurrent MonitorData.create_by_ip calls in progress
    client          \* the monitoring client: its loop and its last submission

vars == <<servers, users, server_users, monitor_data, now, tz, pc, gw, call, sus, lv,
          maint, admin, server_seq, ingest, client>>

(***************************************************************************)
(* Bounds of the model.                                                    *)
(***************************************************************************)
MaxRows == 5        \* rows monitor_data may hold when the sustained check is called alone
MaxAlertRows == 3   \* rows monitor_data may hold when ingestion calls are served
MaxNow == 6         \* last minute of the clock
TzShift == 60       \* magnitude of the local clock's offset from UTC
LvMax == 6          \* largest boundary and value of a drawn threshold triple

(***************************************************************************)
(* Program constants.                                                      *)
(***************************************************************************)
DEFAULT_THRESHOLDS ==
    [cpu    |-> [warning |-> 70, critical |-> 85, emergency |-> 95],
     memory |-> [warning |-> 75, critical |-> 85, emergency |-> 95],
     disk   |-> [warning |-> 80, critical |-> 90, emergency |-> 95]]

MetricTypes == DOMAIN DEFAULT_THRESHOLDS

AlertMinutes == 5       \* minutes=5 passed by check_and_send_alert_by_ip
DefaultMinutes == 1     \* minutes=1, the default of check_sustained_alert_by_ip
MinSamplesTwo == 3 - 1  \* the floor one sample too low
MinSamples == 3         \* len(recent_data) < 3
RatioTenths == 8        \* 0.8, in tenths

None == "none"          \* Python's None, as an alert level

\* Python's None, as the result of a server query
NoServer == [id |-> 0, server_name |-> "", ip_address |-> ""]

(***************************************************************************)
(* Inputs.                                                                 *)
(***************************************************************************)
IPs == {"10.0.0.5", "10.0.0.6", "192.168.9.9"}

KindInputs == MetricTypes \cup {"net"}

Loads ==
    { [cpu |-> 60, memory |-> 60, disk |-> 60],
      [cpu |-> 86, memory |-> 86, disk |-> 92],
      [cpu |-> 97, memory |-> 60, disk |-> 85] }

Vals == {60, 72, 86, 97}

\* values check_and_send_alert_by_ip is called with on its own
DirectVals == {72, 97}

\* rows stored when the sustained check is called alone: every load for the
\* first server, a load over every boundary but the emergency one for the second
StoreInputs ==
    {<<"10.0.0.5", m>> : m \in Loads} \cup
    {<<"10.0.0.6", [cpu |-> 86, memory |-> 86, disk |-> 92]>>}

\* minutes between two observations of the clock: a row is inside the alert
\* window at the observation that stores it and outside at the next one
TickSteps == {AlertMinutes + 1}

TzOffsets == {0 - TzShift, 0, TzShift}

SmtpOutcomes == {"ok", "SMTPException"}

(***************************************************************************)
(* determine_alert_level                                                   *)
(***************************************************************************)
\* the comparisons made strict
determine_alert_level_strict(value, thresholds) ==
    IF value > thresholds.emergency THEN "emergency"
    ELSE IF value > thresholds.critical THEN "critical"
    ELSE IF value > thresholds.warning THEN "warning"
    ELSE None

determine_alert_level(value, thresholds) ==
    IF value >= thresholds.emergency THEN "emergency"
    ELSE IF value >= thresholds.critical THEN "critical"
    ELSE IF value >= thresholds.warning THEN "warning"
    ELSE None

(***************************************************************************)
(* Queries of model/models.py                                              *)
(***************************************************************************)
\* Server.get_by_ip: filter_by(ip_address=...).first()
Server_get_by_ip(ip_address) ==
    LET found == {s \in servers : s.ip_address = ip_address}
    IN  IF found = {} THEN NoServer
        ELSE CHOOSE s \in found : \A t \in found : s.id <= t.id

RECURSIVE OrderById(_)
OrderById(S) ==
    IF S = {} THEN <<>>
    ELSE LET u == CHOOSE x \in S : \A y \in S : x.id <= y.id
         IN  <<u>> \o OrderById(S \ {u})

\* Server.get_alert_users: list(self.users)
get_alert_users(server) ==
    OrderById({u \in users : <<server.id, u.id>> \in server_users})

\* bag of the rows of B that satisfy P
BagFilter(B, P(_)) == [r \in {x \in DOMAIN B : P(x)} |-> B[r]]

\* MonitorData.get_by_ip
MonitorData_get_by_ip(ip_address, start_time) ==
    LET server == Server_get_by_ip(ip_address)
    IN  IF server = NoServer THEN EmptyBag
        ELSE LET InRange(r) == r.server_id = server.id /\ r.recorded_at >= start_time
             IN  BagFilter(monitor_data, InRange)

(***************************************************************************)
(* check_sustained_alert_by_ip                                             *)
(***************************************************************************)
\* a loop that counts every row of recent_data
ExceedsEveryRow(data, metric_type, threshold_value) == TRUE

\* the if/elif chain of the counting loop, for one row
Exceeds(data, metric_type, threshold_value) ==
    \/ metric_type = "cpu" /\ data.cpu_value >= threshold_value
    \/ metric_type = "memory" /\ data.memory_value >= threshold_value
    \/ metric_type = "disk" /\ data.disk_value >= threshold_value

\* a loop that counts every row whose own level is not none
SustainedCountOwnLevel(recent_data, metric_type, threshold_value) ==
    LET Over(r) == Exceeds(r, metric_type, DEFAULT_THRESHOLDS[metric_type].warning)
    IN  BagCardinality(BagFilter(recent_data, Over))

\* sustained_count after the loop over recent_data
SustainedCount(recent_data, metric_type, threshold_value) ==
    LET Over(r) == Exceeds(r, metric_type, threshold_value)
    IN  BagCardinality(BagFilter(recent_data, Over))

\* the fraction compared with > in place of >=
RatioReachedStrict(sustained_count, n) == sustained_count * 10 > n * RatioTenths

\* sustained_count >= len(recent_data) * 0.8; the float product n * 0.8
\* compares with an integer count as the exact 8n/10 does for every n < 2000
RatioReached(sustained_count, n) == sustained_count * 10 >= n * RatioTenths

\* the check without its floor of three samples
check_sustained_no_floor(ip_address, metric_type, value, minutes) ==
    LET start_time == now - minutes
        recent_data == MonitorData_get_by_ip(ip_address, start_time)
        n == BagCardinality(recent_data)
        thresholds == DEFAULT_THRESHOLDS[metric_type]
        alert_level == determine_alert_level(value, thresholds)
    IN  IF alert_level = None THEN FALSE
        ELSE RatioReached(
                SustainedCount(recent_data, metric_type, thresholds[alert_level]), n)

check_sustained_alert_by_ip(ip_address, metric_type, value, minutes) ==
    LET start_time == now - minutes
        recent_data == MonitorData_get_by_ip(ip_address, start_time)
        n == BagCardinality(recent_data)
        thresholds == DEFAULT_THRESHOLDS[metric_type]
        alert_level == determine_alert_level(value, thresholds)
    IN  IF n < MinSamples THEN FALSE
        ELSE IF alert_level = None THEN FALSE
        ELSE RatioReached(
                SustainedCount(recent_data, metric_type, thresholds[alert_level]), n)

(***************************************************************************)
(* send_alert_email: the message is built and handed to the SMTP server    *)
(* inside one try block; every exception is logged and False returned.     *)
(***************************************************************************)
\* the warning boundary whatever the level
get_threshold_by_level_warning(level, metric_type) ==
    DEFAULT_THRESHOLDS[metric_type]["warning"]

\* lines 188-197
get_threshold_by_level(level, metric_type) ==
    LET thresholds == DEFAULT_THRESHOLDS[metric_type]
    IN  IF level = "emergency" THEN thresholds["emergency"]
        ELSE IF level = "critical" THEN thresholds["critical"]
        ELSE IF level = "warning" THEN thresholds["warning"]
        ELSE 0

\* lines 163-169 and 175: what the template of the level is filled with, and
\* the level the subject names
AlertMessage(server_name, metric_type, value, level) ==
    [template |-> level, subject |-> level, server_name |-> server_name,
     metric_type |-> metric_type, value |-> value,
     threshold |-> get_threshold_by_level(level, metric_type)]

\* the delivery error left to propagate
send_alert_email_raising(email, server_name, metric_type, value, level, smtp) ==
    [status |-> IF smtp = "ok" THEN "returned" ELSE "raised", ret |-> (smtp = "ok")]

send_alert_email(email, server_name, metric_type, value, level, smtp) ==
    [status |-> "returned", ret |-> (smtp = "ok")]

\* the handler raising the exception again
on_exception_reraise(error) == [status |-> "raised", ret |-> FALSE]

\* the handler "except Exception" of check_and_send_alert_by_ip
on_exception(error) == [status |-> "returned", ret |-> FALSE]

\* success only when every delivery succeeded
DispatchResultAll(success_count, total_count) == success_count = total_count

\* line 87: return success_count > 0
DispatchResult(success_count, total_count) == success_count > 0

(***************************************************************************)
(* State of the calls.                                                     *)
(***************************************************************************)
NoGw ==
    [ip |-> "", metrics |-> [cpu |-> 0, memory |-> 0, disk |-> 0],
     pending |-> <<>>, stored |-> FALSE, result |-> ""]

NoCall ==
    [ip |-> "", metric_type |-> "", value |-> 0, caller |-> "",
     server |-> NoServer, alert_users |-> <<>>, alert_level |-> None,
     checked |-> FALSE, minutes |-> 0, sustained |-> FALSE,
     attempts |-> <<>>, success_count |-> 0,
     status |-> "", ret |-> FALSE, error |-> ""]

NoSus ==
    [ip |-> "", metric_type |-> "", value |-> 0, minutes |-> 0, explicit |-> FALSE,
     result |-> FALSE]

\* the value of a call is a sequence: <<>> is Python's None, <<v>> the value v
NoMaint ==
    [op |-> "", arg |-> 0, cutoff |-> 0, removed |-> 0, ret |-> <<>>,
     prior |-> <<>>, ids |-> <<>>, error |-> ""]

Procs == {1, 2}

NoRequest == [op |-> "", pc |-> "idle", server_id |-> 0, ip_address |-> "", code |-> 0]

NoAdmin == [p \in Procs |-> NoRequest]

\* a create_by_ip call: the address and values it was called with, the server
\* its lookup found, how it ended, and the maintenance call that ran between
\* its lookup and its insert
NoIngestCall ==
    [pc |-> "idle", ip_address |-> "", metrics |-> [cpu |-> 0, memory |-> 0, disk |-> 0],
     server_id |-> 0, error |-> "", during |-> ""]

\* the calls in progress and the number of rows they committed
NoIngest == [req |-> [p \in Procs |-> NoIngestCall], written |-> 0]

\* the client between two rounds of its loop
NoClient ==
    [pc |-> "sleep", batch |-> 0, outcome |-> "", ret |-> FALSE, sends |-> 0,
     failed |-> {}, delivered |-> {}, resent |-> {}]

NoLv ==
    [value |-> 0, thresholds |-> [warning |-> 0, critical |-> 0, emergency |-> 0],
     level |-> None]

InitServers ==
    { [id |-> 1, server_name |-> "web-1", ip_address |-> "10.0.0.5"],
      [id |-> 2, server_name |-> "db-1", ip_address |-> "10.0.0.6"] }

InitUsers ==
    { [id |-> 1, email |-> "ops1@example.com"],
      [id |-> 2, email |-> "ops2@example.com"],
      [id |-> 3, email |-> "ops3@example.com"] }

\* the recipient sets the servers start with
InitAssociations ==
    { {<<2, 3>>},
      {<<1, 1>>, <<1, 2>>, <<2, 3>>},
      {<<1, 1>>, <<1, 2>>, <<1, 3>>} }

Init ==
    /\ servers = InitServers
    /\ users = InitUsers
    /\ server_users \in InitAssociations
    /\ monitor_data = EmptyBag
    /\ now = 0
    /\ tz \in TzOffsets
    /\ pc = "idle"
    /\ gw = NoGw
    /\ call = NoCall
    /\ sus = NoSus
    /\ lv = NoLv
    /\ maint = NoMaint
    /\ admin = NoAdmin
    /\ server_seq = 3
    /\ ingest = NoIngest
    /\ client = NoClient

(***************************************************************************)
(* MonitorData.create and MonitorData.create_by_ip                         *)
(***************************************************************************)
\* the row MonitorData.create adds; recorded_at defaults to datetime.now()
NewRow(server_id, ip_address, cpu_value, memory_value, disk_value) ==
    [server_id |-> server_id, ip_address |-> ip_address,
     cpu_value |-> cpu_value, memory_value |-> memory_value,
     disk_value |-> disk_value, recorded_at |-> now + tz]

\* an insert that finds an equal row stored and keeps the one row
InsertedMerged(store, row) == IF BagIn(row, store) THEN store ELSE store (+) SetToBag({row})

\* db.session.add(data); db.session.commit(): one more row, under a new id
Inserted(store, row) == store (+) SetToBag({row})

\* the row added to the session and never committed
MonitorData_create_uncommitted(server_id, ip_address, cpu_value, memory_value, disk_value) ==
    monitor_data' = monitor_data

MonitorData_create(server_id, ip_address, cpu_value, memory_value, disk_value) ==
    monitor_data' =
        Inserted(monitor_data,
                 NewRow(server_id, ip_address, cpu_value, memory_value, disk_value))

\* the lookup result left unchecked
create_by_ip_never_raises(ip_address) == FALSE

\* create_by_ip raises ValueError when no server has the address
create_by_ip_raises(ip_address) == Server_get_by_ip(ip_address) = NoServer

MonitorData_create_by_ip(ip_address, cpu_value, memory_value, disk_value) ==
    IF create_by_ip_raises(ip_address)
    THEN monitor_data' = monitor_data
    ELSE MonitorData_create(Server_get_by_ip(ip_address).id, ip_address,
                            cpu_value, memory_value, disk_value)

(***************************************************************************)
(* The ingestion call: store the sample, then evaluate one alert per       *)
(* metric kind, then answer.                                               *)
(***************************************************************************)
KindOrder == <<"cpu", "memory", "disk">>

\* the ingestion call, up to its first alert evaluation
IngestCall(ip_address, metrics) ==
    /\ pc = "idle"
    /\ MonitorData_create_by_ip(ip_address, metrics.cpu, metrics.memory, metrics.disk)
    /\ IF create_by_ip_raises(ip_address)
       THEN /\ gw' = [NoGw EXCEPT !.ip = ip_address, !.metrics = metrics,
                                  !.result = "EntityNotFound"]
            /\ pc' = "gw_done"
       ELSE /\ gw' = [NoGw EXCEPT !.ip = ip_address, !.metrics = metrics,
                                  !.pending = KindOrder, !.stored = TRUE,
                                  !.result = "running"]
            /\ pc' = "gw_alert"
    /\ UNCHANGED <<servers, users, server_users, now, tz, call, sus, lv, maint, admin, server_seq, ingest, client>>

(***************************************************************************)
(* check_and_send_alert_by_ip                                              *)
(***************************************************************************)
Ingest(ip_address, metrics) ==
    /\ BagCardinality(monitor_data) < MaxAlertRows
    /\ IngestCall(ip_address, metrics)

\* an empty recipient list counted as a success
NoUsersReturnTrue == TRUE

\* lines 52-54: "return False" when the server has no associated user
NoUsersReturn == FALSE

NewCall(ip_address, metric_type, value, caller) ==
    [NoCall EXCEPT !.ip = ip_address, !.metric_type = metric_type,
                   !.value = value, !.caller = caller, !.status = "running"]

Returned(c, r) == [c EXCEPT !.status = r.status, !.ret = r.ret]

\* lines 43-62 and 88-93: the lookups and the level; db is the outcome of
\* the store's queries
AlertBegin(ip_address, metric_type, value, caller, db) ==
    LET c == NewCall(ip_address, metric_type, value, caller)
        server == Server_get_by_ip(ip_address)
        alert_users == get_alert_users(server)
        alert_level == determine_alert_level(value, DEFAULT_THRESHOLDS[metric_type])
        done(r) == /\ call' = r
                   /\ pc' = "alert_done"
    IN  IF db # "ok"
        THEN done(Returned([c EXCEPT !.error = db], on_exception(db)))
        ELSE IF server = NoServer
        THEN done(Returned(c, [status |-> "returned", ret |-> FALSE]))
        ELSE IF alert_users = <<>>
        THEN done(Returned([c EXCEPT !.server = server],
                           [status |-> "returned", ret |-> NoUsersReturn]))
        ELSE IF metric_type \notin DOMAIN DEFAULT_THRESHOLDS
        THEN done(Returned([c EXCEPT !.server = server, !.alert_users = alert_users,
                                     !.error = "KeyError"],
                           on_exception("KeyError")))
        ELSE IF alert_level = None
        THEN done(Returned([c EXCEPT !.server = server, !.alert_users = alert_users],
                           [status |-> "returned", ret |-> TRUE]))
        ELSE /\ call' = [c EXCEPT !.server = server, !.alert_users = alert_users,
                                  !.alert_level = alert_level]
             /\ pc' = "alert_sustained"

DbOutcomes == {"ok", "OperationalError"}

\* the ingestion call evaluates the next metric kind, or answers
GwAlert ==
    /\ pc = "gw_alert"
    /\ IF gw.pending = <<>>
       THEN /\ gw' = [gw EXCEPT !.result = "ok"]
            /\ pc' = "gw_done"
            /\ call' = NoCall
       ELSE /\ gw' = [gw EXCEPT !.pending = Tail(gw.pending)]
            /\ \E db \in DbOutcomes :
                  AlertBegin(gw.ip, Head(gw.pending), gw.metrics[Head(gw.pending)],
                             "gateway", db)
    /\ UNCHANGED <<servers, users, server_users, monitor_data, now, tz, sus, lv, maint, admin, server_seq, ingest, client>>

\* check_and_send_alert_by_ip called on its own
DirectAlert(ip_address, metric_type, value) ==
    /\ pc = "idle"
    /\ \E db \in DbOutcomes : AlertBegin(ip_address, metric_type, value, "direct", db)
    /\ UNCHANGED <<servers, users, server_users, monitor_data, now, tz, gw, sus, lv, maint, admin, server_seq, ingest, client>>

\* an exceedance that is not sustained reported as a failure
NotSustainedReturnFalse == FALSE

\* lines 64-65: "return True" when the exceedance is not sustained
NotSustainedReturn == TRUE

\* the loop entered whatever the sustained check answered
AlertSustainedIgnored ==
    /\ pc = "alert_sustained"
    /\ call' = [call EXCEPT !.checked = TRUE, !.minutes = AlertMinutes,
                            !.sustained =
                                check_sustained_alert_by_ip(call.ip, call.metric_type,
                                                            call.value, AlertMinutes)]
    /\ pc' = "alert_send"
    /\ UNCHANGED <<servers, users, server_users, monitor_data, now, tz, gw, sus, lv, maint, admin, server_seq, ingest, client>>

\* lines 63-69: the sustained check, with minutes=5
AlertSustained ==
    /\ pc = "alert_sustained"
    /\ LET sustained == check_sustained_alert_by_ip(call.ip, call.metric_type,
                                                     call.value, AlertMinutes)
           c == [call EXCEPT !.checked = TRUE, !.minutes = AlertMinutes,
                             !.sustained = sustained]
       IN  IF ~sustained
           THEN /\ call' = Returned(c, [status |-> "returned",
                                        ret |-> NotSustainedReturn])
                /\ pc' = "alert_done"
           ELSE /\ call' = c
                /\ pc' = "alert_send"
    /\ UNCHANGED <<servers, users, server_users, monitor_data, now, tz, gw, sus, lv, maint, admin, server_seq, ingest, client>>

\* lines 71-87: one turn of the loop over alert_users, and the return after
\* the last one; an exception leaving send_alert_email would reach the
\* handler of line 91
AlertSend(smtp) ==
    /\ pc = "alert_send"
    /\ LET i == Len(call.attempts) + 1
           user == call.alert_users[i]
           r == send_alert_email(user.email, call.server.server_name,
                                 call.metric_type, call.value, call.alert_level, smtp)
           success == r.status = "returned" /\ r.ret
           c == [call EXCEPT
                   !.attempts = Append(@, [user |-> user.id, email |-> user.email,
                                           level |-> call.alert_level,
                                           message |-> AlertMessage(
                                               call.server.server_name,
                                               call.metric_type, call.value,
                                               call.alert_level),
                                           status |-> r.status, ok |-> success]),
                   !.success_count = IF success THEN @ + 1 ELSE @]
       IN  IF r.status # "returned"
           THEN /\ call' = Returned([c EXCEPT !.error = smtp], on_exception(smtp))
                /\ pc' = "alert_done"
           ELSE IF i < Len(call.alert_users)
           THEN /\ call' = c
                /\ pc' = "alert_send"
           ELSE /\ call' = Returned(c, [status |-> "returned",
                                        ret |-> DispatchResult(c.success_count,
                                                    Len(call.alert_users))])
                /\ pc' = "alert_done"
    /\ UNCHANGED <<servers, users, server_users, monitor_data, now, tz, gw, sus, lv, maint, admin, server_seq, ingest, client>>

\* the call is over: back to its caller; an exception that left the call
\* would end the ingestion call with an error
AlertReturn ==
    /\ pc = "alert_done"
    /\ IF call.caller # "gateway"
       THEN /\ pc' = "idle"
            /\ call' = NoCall
            /\ gw' = gw
       ELSE IF call.status = "returned"
       THEN /\ pc' = "gw_alert"
            /\ call' = call
            /\ gw' = gw
       ELSE /\ pc' = "gw_done"
            /\ call' = call
            /\ gw' = [gw EXCEPT !.result = "InternalError"]
    /\ UNCHANGED <<servers, users, server_users, monitor_data, now, tz, sus, lv, maint, admin, server_seq, ingest, client>>

\* the ingestion call has answered
GwReturn ==
    /\ pc = "gw_done"
    /\ pc' = "idle"
    /\ gw' = NoGw
    /\ call' = NoCall
    /\ UNCHANGED <<servers, users, server_users, monitor_data, now, tz, sus, lv, maint, admin, server_seq, ingest, client>>

(***************************************************************************)
(* check_sustained_alert_by_ip called on its own                           *)
(***************************************************************************)
DirectSustained(ip_address, metric_type, value, minutes) ==
    /\ pc = "idle"
    /\ sus' = [ip |-> ip_address, metric_type |-> metric_type, value |-> value,
               minutes |-> minutes, explicit |-> TRUE,
               result |-> check_sustained_alert_by_ip(ip_address, metric_type,
                                                      value, minutes)]
    /\ pc' = "sus_done"
    /\ UNCHANGED <<servers, users, server_users, monitor_data, now, tz, gw, call, lv, maint, admin, server_seq, ingest, client>>

SustainedReturn ==
    /\ pc = "sus_done"
    /\ pc' = "idle"
    /\ sus' = NoSus
    /\ UNCHANGED <<servers, users, server_users, monitor_data, now, tz, gw, call, lv, maint, admin, server_seq, ingest, client>>

(***************************************************************************)
(* The clock.                                                              *)
(***************************************************************************)
Tick(d) ==
    /\ pc = "idle"
    /\ now + d <= MaxNow
    /\ now' = now + d
    /\ UNCHANGED <<servers, users, server_users, monitor_data, tz, pc, gw, call, sus, lv, maint, admin, server_seq, ingest, client>>

Next ==
    \/ \E ip \in IPs, m \in Loads : Ingest(ip, m)
    \/ GwAlert
    \/ \E ip \in IPs, k \in KindInputs, v \in DirectVals : DirectAlert(ip, k, v)
    \/ AlertSustained
    \/ \E smtp \in SmtpOutcomes : AlertSend(smtp)
    \/ AlertReturn
    \/ GwReturn
    \/ \E d \in TickSteps : Tick(d)

Spec == Init /\ [][Next]_vars

(***************************************************************************)
(* The sustained check alone: rows are stored by MonitorData.create_by_ip  *)
(* and check_sustained_alert_by_ip is called on the store.                 *)
(***************************************************************************)
Store(ip_address, metrics) ==
    /\ pc = "idle"
    /\ BagCardinality(monitor_data) < MaxRows
    /\ ~create_by_ip_raises(ip_address)
    /\ MonitorData_create_by_ip(ip_address, metrics.cpu, metrics.memory, metrics.disk)
    /\ UNCHANGED <<servers, users, server_users, now, tz, pc, gw, call, sus, lv, maint, admin, server_seq, ingest, client>>

InitSustained ==
    /\ servers = InitServers
    /\ users = InitUsers
    /\ server_users = {}
    /\ monitor_data = EmptyBag
    /\ now = 0
    /\ tz \in TzOffsets
    /\ pc = "idle"
    /\ gw = NoGw
    /\ call = NoCall
    /\ sus = NoSus
    /\ lv = NoLv
    /\ maint = NoMaint
    /\ admin = NoAdmin
    /\ server_seq = 3
    /\ ingest = NoIngest
    /\ client = NoClient

NextSustained ==
    \/ \E x \in StoreInputs : Store(x[1], x[2])
    \/ \E ip \in IPs, k \in MetricTypes, v \in Vals, m \in {DefaultMinutes, AlertMinutes} :
          DirectSustained(ip, k, v, m)
    \/ SustainedReturn
    \/ \E d \in TickSteps : Tick(d)

SpecSustained == InitSustained /\ [][NextSustained]_vars

(***************************************************************************)
(* determine_alert_level alone, on drawn values and threshold triples.     *)
(***************************************************************************)
Evaluate(value, w, c, e) ==
    /\ w < c
    /\ c < e
    /\ lv' = [value |-> value,
              thresholds |-> [warning |-> w, critical |-> c, emergency |-> e],
              level |-> determine_alert_level(value,
                            [warning |-> w, critical |-> c, emergency |-> e])]
    /\ UNCHANGED <<servers, users, server_users, monitor_data, now, tz, pc, gw,
                   call, sus, maint, admin, server_seq, ingest, client>>

NextLevel ==
    \E value \in 0..(LvMax + 1), w \in 0..LvMax, c \in 0..LvMax, e \in 0..LvMax :
        Evaluate(value, w, c, e)

InitLevel == InitSustained /\ tz = 0

SpecLevel == InitLevel /\ [][NextLevel]_vars

TypeOK ==
    /\ pc \in {"idle", "gw_alert", "gw_done", "alert_sustained", "alert_send",
               "alert_done", "sus_done"}
    /\ BagCardinality(monitor_data) <= MaxRows

(***************************************************************************)
(* Vocabulary of the properties.                                           *)
(***************************************************************************)
\* the samples of the entity with this address that lie in the window of
\* the last `minutes` minutes
WindowSamples(ip_address, minutes) ==
    LET Recent(r) == r.ip_address = ip_address /\ r.recorded_at >= now - minutes
    IN  BagFilter(monitor_data, Recent)

\* the value a sample carries for a metric kind
SampleValue(r, kind) ==
    CASE kind = "cpu" -> r.cpu_value
      [] kind = "memory" -> r.memory_value
      [] kind = "disk" -> r.disk_value

\* how many samples of the window are at or over a boundary of the kind
CountAtOrOver(ip_address, minutes, kind, boundary) ==
    LET Over(r) == SampleValue(r, kind) >= boundary
    IN  BagCardinality(BagFilter(WindowSamples(ip_address, minutes), Over))

LevelOf(kind, value) == determine_alert_level(value, DEFAULT_THRESHOLDS[kind])

(***************************************************************************)
(* C1: for every value v and every triple warning < critical < emergency,  *)
(* determine_alert_level gives emergency iff v >= emergency, critical iff  *)
(* critical <= v < emergency, warning iff warning <= v < critical, and     *)
(* none iff v < warning.                                                   *)
(***************************************************************************)
C1_LevelBands ==
    lv # NoLv =>
        LET v == lv.value
            t == lv.thresholds
        IN  /\ lv.level = "emergency" <=> v >= t.emergency
            /\ lv.level = "critical" <=> (t.critical <= v /\ v < t.emergency)
            /\ lv.level = "warning" <=> (t.warning <= v /\ v < t.critical)
            /\ lv.level = None <=> v < t.warning

\* a value exactly on the critical boundary was evaluated as critical
C1_Witness ==
    /\ lv # NoLv
    /\ lv.value = lv.thresholds.critical
    /\ lv.thresholds.warning = lv.thresholds.critical - 1
    /\ lv.level = "critical"

(***************************************************************************)
(* C2: check_sustained_alert_by_ip returns false whenever fewer than 3     *)
(* samples of the entity lie in the window, whatever the sample values and *)
(* the current value.                                                      *)
(***************************************************************************)
C2_FloorOfThree ==
    (pc = "sus_done" /\ BagCardinality(WindowSamples(sus.ip, sus.minutes)) < 3)
        => ~sus.result

\* two samples in the window, both at emergency, and an emergency current value
C2_Witness ==
    /\ pc = "sus_done"
    /\ sus.metric_type = "cpu"
    /\ LevelOf("cpu", sus.value) = "emergency"
    /\ BagCardinality(WindowSamples(sus.ip, sus.minutes)) = 2
    /\ CountAtOrOver(sus.ip, sus.minutes, "cpu", DEFAULT_THRESHOLDS.cpu.emergency) = 2
    /\ ~sus.result

(***************************************************************************)
(* C3: with n >= 3 samples in the window and a current value whose level   *)
(* is not none, the check returns true iff the number of window samples at *)
(* or over the boundary of that level, for the same kind, is at least 80%  *)
(* of n, that is 5 * count >= 4 * n.                                       *)
(***************************************************************************)
C3_EightyPercent ==
    LET n == BagCardinality(WindowSamples(sus.ip, sus.minutes))
        level == LevelOf(sus.metric_type, sus.value)
    IN  (pc = "sus_done" /\ n >= 3 /\ level # None) =>
            (sus.result <=>
                5 * CountAtOrOver(sus.ip, sus.minutes, sus.metric_type,
                                  DEFAULT_THRESHOLDS[sus.metric_type][level]) >= 4 * n)

\* 4 of 5 samples over the boundary: sustained
C3_Witness ==
    LET level == LevelOf(sus.metric_type, sus.value)
    IN  /\ pc = "sus_done"
        /\ level # None
        /\ BagCardinality(WindowSamples(sus.ip, sus.minutes)) = 5
        /\ CountAtOrOver(sus.ip, sus.minutes, sus.metric_type,
                         DEFAULT_THRESHOLDS[sus.metric_type][level]) = 4
        /\ sus.result

\* 3 of 5 samples over the boundary: not sustained
C3_ThreeOfFive ==
    LET level == LevelOf(sus.metric_type, sus.value)
    IN  /\ pc = "sus_done"
        /\ level # None
        /\ BagCardinality(WindowSamples(sus.ip, sus.minutes)) = 5
        /\ CountAtOrOver(sus.ip, sus.minutes, sus.metric_type,
                         DEFAULT_THRESHOLDS[sus.metric_type][level]) = 3
        /\ ~sus.result

(***************************************************************************)
(* Vocabulary of the properties about check_and_send_alert_by_ip.          *)
(***************************************************************************)
\* the entities with this address
EntitiesAt(ip_address) == {s \in servers : s.ip_address = ip_address}

\* the recipients associated with the entities of this address
RecipientsAt(ip_address) ==
    {u \in users : \E s \in EntitiesAt(ip_address) : <<s.id, u.id>> \in server_users}

\* the alert is decided: the level is not none and the exceedance is sustained
AlertDecided(ip_address, kind, value) ==
    LET n == BagCardinality(WindowSamples(ip_address, AlertMinutes))
        level == LevelOf(kind, value)
    IN  /\ level # None
        /\ n >= 3
        /\ 5 * CountAtOrOver(ip_address, AlertMinutes, kind,
                             DEFAULT_THRESHOLDS[kind][level]) >= 4 * n

\* the deliveries of the call that returned success
Succeeded == {i \in 1..Len(call.attempts) : call.attempts[i].ok}

\* the call is over, no store error occurred and the metric kind is known
CallOver ==
    /\ pc = "alert_done"
    /\ call.error = ""
    /\ call.metric_type \in MetricTypes

(***************************************************************************)
(* C4: a single spike never pages anyone: when at most one sample of the   *)
(* entity's window is at or over the warning boundary of the metric kind,  *)
(* the call attempts no delivery for that metric.                          *)
(***************************************************************************)
C4_SingleSpikeSilent ==
    (/\ call.status # ""
     /\ call.metric_type \in MetricTypes
     /\ CountAtOrOver(call.ip, AlertMinutes, call.metric_type,
                      DEFAULT_THRESHOLDS[call.metric_type].warning) <= 1)
        => call.attempts = <<>>

\* an emergency value, stored as the only elevated sample of three, and an
\* entity with recipients: the call ended without a delivery
C4_Witness ==
    /\ pc = "alert_done"
    /\ call.caller = "gateway"
    /\ call.metric_type = "cpu"
    /\ call.alert_level = "emergency"
    /\ call.alert_users # <<>>
    /\ BagCardinality(WindowSamples(call.ip, AlertMinutes)) = 3
    /\ CountAtOrOver(call.ip, AlertMinutes, "cpu", DEFAULT_THRESHOLDS.cpu.warning) = 1
    /\ call.attempts = <<>>

(***************************************************************************)
(* C5: a delivery is attempted only if the level of the submitted value is *)
(* not none and the sustained check of the entity and metric kind, with a  *)
(* window of 5 minutes, returned true; the check precedes the first        *)
(* attempt.                                                                *)
(***************************************************************************)
C5_CheckedBeforeDelivery ==
    [][Len(call'.attempts) > Len(call.attempts) =>
          /\ call.alert_level # None
          /\ call.alert_level = LevelOf(call.metric_type, call.value)
          /\ call.checked
          /\ call.minutes = 5
          /\ call.sustained
          /\ AlertDecided(call.ip, call.metric_type, call.value)]_vars

\* the first delivery of a call made by the ingestion call has been attempted
C5_Witness ==
    /\ pc = "alert_send"
    /\ call.caller = "gateway"
    /\ Len(call.attempts) = 1

(***************************************************************************)
(* C6: once an alert is decided, every recipient associated with the       *)
(* entity gets exactly one delivery attempt, whatever deliveries fail.     *)
(***************************************************************************)
C6_EveryRecipientOnce ==
    (pc = "alert_done" /\ call.checked /\ call.sustained) =>
        /\ Len(call.attempts) = Cardinality(RecipientsAt(call.ip))
        /\ \A u \in RecipientsAt(call.ip) :
              Cardinality({i \in 1..Len(call.attempts) :
                              /\ call.attempts[i].user = u.id
                              /\ call.attempts[i].email = u.email}) = 1

\* three recipients: the first delivery failed and the two after it were made
C6_Witness ==
    /\ pc = "alert_done"
    /\ Len(call.attempts) = 3
    /\ ~call.attempts[1].ok
    /\ call.attempts[2].ok
    /\ ~call.attempts[3].ok

(***************************************************************************)
(* C7, as stated: once the alert is decided the call reports success iff   *)
(* succeeded > 0 or attempted = 0, attempted being the number of           *)
(* associated recipients.                                                  *)
(***************************************************************************)
C7_AsStated ==
    (/\ CallOver
     /\ EntitiesAt(call.ip) # {}
     /\ AlertDecided(call.ip, call.metric_type, call.value)) =>
        (call.ret <=>
            (Cardinality(Succeeded) > 0 \/ Cardinality(RecipientsAt(call.ip)) = 0))

(***************************************************************************)
(* C7, amended: once the alert is decided the call reports success iff     *)
(* succeeded > 0; the deliveries attempted are as many as the associated   *)
(* recipients, and with no recipient the call reports failure.             *)
(***************************************************************************)
C7_SuccessIffOneDelivered ==
    (/\ CallOver
     /\ EntitiesAt(call.ip) # {}
     /\ AlertDecided(call.ip, call.metric_type, call.value)) =>
        /\ Len(call.attempts) = Cardinality(RecipientsAt(call.ip))
        /\ call.success_count = Cardinality(Succeeded)
        /\ call.ret <=> Cardinality(Succeeded) > 0

\* three recipients of which one delivery failed: success, 2 of 3
C7_Witness ==
    /\ CallOver
    /\ Cardinality(RecipientsAt(call.ip)) = 3
    /\ Len(call.attempts) = 3
    /\ Cardinality(Succeeded) = 2
    /\ call.ret

(***************************************************************************)
(* C8, as stated: for an entity that exists and has no recipient the call  *)
(* attempts no delivery and does not report failure.                       *)
(***************************************************************************)
C8_AsStated ==
    (CallOver /\ EntitiesAt(call.ip) # {} /\ RecipientsAt(call.ip) = {}) =>
        /\ call.attempts = <<>>
        /\ call.ret

(***************************************************************************)
(* C8, amended: for an entity that exists and has no recipient the call    *)
(* attempts no delivery and returns False, for every metric kind and       *)
(* value.                                                                  *)
(***************************************************************************)
C8_NoRecipientsReturnsFalse ==
    (CallOver /\ EntitiesAt(call.ip) # {} /\ RecipientsAt(call.ip) = {}) =>
        /\ call.attempts = <<>>
        /\ ~call.ret

\* an entity without recipients whose alert would be decided
C8_Witness ==
    /\ CallOver
    /\ EntitiesAt(call.ip) # {}
    /\ RecipientsAt(call.ip) = {}
    /\ AlertDecided(call.ip, call.metric_type, call.value)
    /\ call.attempts = <<>>
    /\ ~call.ret

(***************************************************************************)
(* C9: no failure of a delivery or of the alert evaluation is raised to    *)
(* the caller: every delivery returns a boolean, the call returns a        *)
(* boolean, and the ingestion call that stored its sample answers success. *)
(***************************************************************************)
C9_NothingRaised ==
    /\ call.status \in {"", "running", "returned"}
    /\ \A i \in 1..Len(call.attempts) : call.attempts[i].status = "returned"
    /\ pc = "alert_done" => call.status = "returned"
    /\ (pc = "gw_done" /\ gw.stored) => gw.result = "ok"

\* inside an ingestion call every delivery of an alert failed, and the call
\* returned False
C9_Witness ==
    /\ pc = "alert_done"
    /\ call.caller = "gateway"
    /\ gw.stored
    /\ Len(call.attempts) = 2
    /\ Succeeded = {}
    /\ call.status = "returned"
    /\ ~call.ret

\* a store error inside the call: False is returned
C9_StoreError ==
    /\ pc = "alert_done"
    /\ call.error = "OperationalError"
    /\ call.status = "returned"
    /\ ~call.ret

(***************************************************************************)
(* C10: ingestion for an address that matches no entity fails with a       *)
(* not-found error and writes no sample, and the alert check for such an   *)
(* address attempts no delivery.                                           *)
(***************************************************************************)
C10_UnknownAddressWritesNothing ==
    [][/\ (pc = "idle" /\ pc' \in {"gw_alert", "gw_done"} /\ EntitiesAt(gw'.ip) = {}) =>
            /\ gw'.result = "EntityNotFound"
            /\ ~gw'.stored
            /\ pc' = "gw_done"
            /\ monitor_data' = monitor_data
       /\ (call'.status # "" /\ EntitiesAt(call'.ip) = {}) =>
            /\ call'.attempts = <<>>
            /\ call'.status = "returned" => ~call'.ret]_vars

\* the ingestion call for the unknown address has failed on a store that
\* holds samples
C10_Witness ==
    /\ pc = "gw_done"
    /\ gw.ip = "192.168.9.9"
    /\ gw.result = "EntityNotFound"
    /\ BagCardinality(monitor_data) >= 1

\* the alert check for the unknown address returned False, nothing sent
C10_AlertForUnknown ==
    /\ pc = "alert_done"
    /\ call.ip = "192.168.9.9"
    /\ call.error = ""
    /\ call.attempts = <<>>
    /\ ~call.ret

(***************************************************************************)
(* C11: sample persistence is independent of alerting: the sample of an    *)
(* ingestion call is committed before any alert evaluation of that call,   *)
(* and no step of check_and_send_alert_by_ip changes the stored samples,   *)
(* whatever its outcome.                                                   *)
(***************************************************************************)
\* the sample of the ingestion call in progress is stored
GwSampleStored(g, store) ==
    \E r \in DOMAIN store :
        /\ r.ip_address = g.ip
        /\ r.cpu_value = g.metrics.cpu
        /\ r.memory_value = g.metrics.memory
        /\ r.disk_value = g.metrics.disk

C11_SamplesUntouchedByAlerting ==
    [][/\ (call' # call \/ pc \in {"alert_sustained", "alert_send", "alert_done"})
            => monitor_data' = monitor_data
       /\ (call'.status # "" /\ call'.caller = "gateway")
            => (gw'.stored /\ GwSampleStored(gw', monitor_data'))]_vars

\* an alert evaluation of an ingestion call ended on a store error, and the
\* sample of the call is stored
C11_Witness ==
    /\ pc = "alert_done"
    /\ call.caller = "gateway"
    /\ call.error = "OperationalError"
    /\ ~call.ret
    /\ GwSampleStored(gw, monitor_data)

(***************************************************************************)
(* The retention purge: MonitorData.delete_old_data on a store filled by   *)
(* MonitorData.create_by_ip, the clock moving in days.                     *)
(***************************************************************************)
\* the most rows of the store in the purge runs
MaxPurgeRows == 3
\* the days the clock may reach in the purge runs
MaxDays == 3

\* timedelta(days=1) in minutes, the unit of the clock
DayMinutes == 24 * 60

\* the retention periods the purge is called with
RetentionInputs == {1, 2}

\* the rows stored in the purge runs
PurgeStoreInputs ==
    {<<"10.0.0.5", [cpu |-> 60, memory |-> 60, disk |-> 60]>>,
     <<"10.0.0.6", [cpu |-> 86, memory |-> 86, disk |-> 92]>>}

\* cls.recorded_at <= cutoff_date
ExpiredInclusive(row, cutoff_date) == row.recorded_at <= cutoff_date

\* cls.recorded_at < cutoff_date
Expired(row, cutoff_date) == row.recorded_at < cutoff_date

\* a delete that stops after the copies of one expired row
DeletedOneBatch(store, cutoff_date) ==
    LET Old(r) == Expired(r, cutoff_date)
        old == BagFilter(store, Old)
    IN  IF DOMAIN old = {} THEN EmptyBag
        ELSE LET first == CHOOSE r \in DOMAIN old :
                              \A q \in DOMAIN old : r.recorded_at <= q.recorded_at
                 IsFirst(r) == r = first
             IN  BagFilter(old, IsFirst)

\* the rows Query.delete() removes: every row the filter selects
Deleted(store, cutoff_date) ==
    LET Old(r) == Expired(r, cutoff_date)
    IN  BagFilter(store, Old)

\* a purge that ends with `return <rowcount>`
delete_old_data_return_count(removed) == <<removed>>

\* the value of the call: the function body has no return statement
delete_old_data_return(removed) == <<>>

\* a purge that keeps the table locked: the inserts waiting for it fail
PendingAbortedByPurge(ing) ==
    [ing EXCEPT !.req = [p \in Procs |->
        IF ing.req[p].pc = "write"
        THEN [ing.req[p] EXCEPT !.pc = "done", !.error = "OperationalError"]
        ELSE ing.req[p]]]

\* lines 524-525: one DELETE statement and the commit that ends the
\* transaction; the create_by_ip calls in progress go on as they were
PendingAfterPurge(ing) == ing

\* MonitorData.delete_old_data(days)
DeleteOldData(days) ==
    /\ pc = "idle"
    /\ LET cutoff_date == (now + tz) - days * DayMinutes
           gone == Deleted(monitor_data, cutoff_date)
       IN  /\ monitor_data' = monitor_data (-) gone
           /\ maint' = [op |-> "purge", arg |-> days, cutoff |-> cutoff_date,
                        removed |-> BagCardinality(gone),
                        ret |-> delete_old_data_return(BagCardinality(gone)),
                        prior |-> IF /\ maint.op = "purge"
                                     /\ maint.arg = days
                                     /\ maint.cutoff = cutoff_date
                                  THEN <<maint.removed>> ELSE <<>>,
                        ids |-> <<>>, error |-> ""]
    /\ ingest' = PendingAfterPurge(ingest)
    /\ UNCHANGED <<servers, users, server_users, now, tz, pc, gw, call, sus, lv, admin, server_seq, client>>

\* MonitorData.create_by_ip between two maintenance calls
PurgeStore(ip_address, metrics) ==
    /\ pc = "idle"
    /\ BagCardinality(monitor_data) < MaxPurgeRows
    /\ ~create_by_ip_raises(ip_address)
    /\ MonitorData_create_by_ip(ip_address, metrics.cpu, metrics.memory, metrics.disk)
    /\ maint' = NoMaint
    /\ UNCHANGED <<servers, users, server_users, now, tz, pc, gw, call, sus, lv, admin, server_seq, ingest, client>>

\* a day passes
TickDay ==
    /\ pc = "idle"
    /\ now + DayMinutes <= MaxDays * DayMinutes
    /\ now' = now + DayMinutes
    /\ maint' = NoMaint
    /\ UNCHANGED <<servers, users, server_users, monitor_data, tz, pc, gw, call, sus, lv, admin, server_seq, ingest, client>>

InitPurge == InitSustained

NextPurge ==
    \/ \E in \in PurgeStoreInputs : PurgeStore(in[1], in[2])
    \/ \E days \in RetentionInputs : DeleteOldData(days)
    \/ TickDay

SpecPurge == InitPurge /\ [][NextPurge]_vars

\* the purge call that has just returned
Purged == maint.op = "purge"

(***************************************************************************)
(* C12: after delete_old_data(days) no stored sample has recorded_at older *)
(* than now - days, and every sample with recorded_at at or after that     *)
(* cutoff is still stored: the purge removes exactly the older rows.       *)
(***************************************************************************)
C12_PurgeCutsAtCutoff ==
    [][(maint'.op = "purge" /\ <<maint, monitor_data>>' # <<maint, monitor_data>>) =>
         /\ maint'.cutoff = (now + tz) - maint'.arg * DayMinutes
         /\ \A r \in DOMAIN monitor_data' : r.recorded_at >= maint'.cutoff
         /\ \A r \in DOMAIN monitor_data :
                r.recorded_at >= maint'.cutoff
                    => CopiesIn(r, monitor_data') = CopiesIn(r, monitor_data)
         /\ \A r \in DOMAIN monitor_data' :
                CopiesIn(r, monitor_data') = CopiesIn(r, monitor_data)]_vars

\* a purge removed a row and kept a row stamped exactly at the cutoff
C12_Witness ==
    /\ Purged
    /\ maint.removed >= 1
    /\ \E r \in DOMAIN monitor_data : r.recorded_at = maint.cutoff

(***************************************************************************)
(* C13 as stated: the purge returns the count of rows it removed, the      *)
(* number of samples stored before the call and not stored after it.       *)
(***************************************************************************)
C13_AsStated == Purged => maint.ret = <<maint.removed>>

(***************************************************************************)
(* C13: the purge returns no value (None) for every store state; the       *)
(* number of rows it removed is not reported to the caller.                *)
(***************************************************************************)
C13_PurgeReturnsNothing == Purged => maint.ret = <<>>

\* a purge removed two rows and returned nothing
C13_Witness ==
    /\ Purged
    /\ maint.removed = 2
    /\ maint.ret = <<>>

(***************************************************************************)
(* C14: the purge is idempotent: a second run with the same retention,     *)
(* right after the first and with no row stored in between, removes zero   *)
(* rows and leaves the store exactly as the first run left it.             *)
(***************************************************************************)
C14_SecondRunRemovesNothing ==
    [][(maint'.op = "purge" /\ maint'.prior # <<>>) =>
         /\ monitor_data' = monitor_data
         /\ maint'.removed = 0]_vars

\* a second run right after a run that removed rows: it removed none and
\* the rows the first run kept are stored
C14_Witness ==
    /\ Purged
    /\ maint.prior # <<>>
    /\ maint.prior[1] >= 1
    /\ maint.removed = 0
    /\ monitor_data # EmptyBag

(***************************************************************************)
(* Server administration: ServerManagement.post, put and delete, two       *)
(* requests at a time.  A request that reads the store and later writes it *)
(* is two steps: the check and the write; the servers table enforces the   *)
(* unique constraint on ip_address at the write.                           *)
(***************************************************************************)
\* the largest id the servers table hands out in the runs
MaxServerId == 4

\* the addresses of the requests: one taken at the start, one free
AdminIPs == {"10.0.0.6", "192.168.9.9"}

\* the server ids of the put and delete requests
AdminIds == {1, 2}

\* a servers table without the unique index
UniqueViolationUnenforced(ip_address, own_id) == FALSE

\* ip_address unique=True: the write of a second row with the address fails
UniqueViolation(ip_address, own_id) ==
    \E s \in servers : s.ip_address = ip_address /\ s.id # own_id

\* Server.get_by_id
Server_get_by_id(server_id) ==
    LET found == {s \in servers : s.id = server_id}
    IN  IF found = {} THEN NoServer ELSE CHOOSE s \in found : TRUE

Answer(p, code) == admin' = [admin EXCEPT ![p].pc = "done", ![p].code = code]

\* post, up to the check of the address
PostCheck(p, ip_address) ==
    /\ admin[p].pc = "idle"
    /\ server_seq <= MaxServerId
    /\ IF Server_get_by_ip(ip_address) # NoServer
       THEN admin' = [admin EXCEPT ![p] = [op |-> "post", pc |-> "done",
                          server_id |-> 0, ip_address |-> ip_address, code |-> 400]]
       ELSE admin' = [admin EXCEPT ![p] = [op |-> "post", pc |-> "write",
                          server_id |-> 0, ip_address |-> ip_address, code |-> 0]]
    /\ UNCHANGED <<servers, users, server_users, monitor_data, now, tz, pc, gw, call, sus, lv, maint, server_seq, ingest, client>>

\* post, Server.create: the insert and the commit
PostWrite(p) ==
    /\ admin[p].op = "post"
    /\ admin[p].pc = "write"
    /\ IF UniqueViolation(admin[p].ip_address, 0)
       THEN /\ Answer(p, 500)
            /\ UNCHANGED <<servers, server_seq, ingest, client>>
       ELSE /\ servers' = servers \cup
                    {[id |-> server_seq, server_name |-> "new",
                      ip_address |-> admin[p].ip_address]}
            /\ server_seq' = server_seq + 1
            /\ admin' = [admin EXCEPT ![p].pc = "done", ![p].code = 200,
                                      ![p].server_id = server_seq]
    /\ UNCHANGED <<users, server_users, monitor_data, now, tz, pc, gw, call, sus, lv, maint, ingest, client>>

\* put with an ip_address, up to the check of the address
PutCheck(p, server_id, ip_address) ==
    /\ admin[p].pc = "idle"
    /\ LET server == Server_get_by_id(server_id)
           existing_server == Server_get_by_ip(ip_address)
           request == [op |-> "put", pc |-> "done", server_id |-> server_id,
                       ip_address |-> ip_address, code |-> 0]
       IN  IF server = NoServer
           THEN admin' = [admin EXCEPT ![p] = [request EXCEPT !.code = 404]]
           ELSE IF existing_server # NoServer /\ existing_server.id # server_id
                THEN admin' = [admin EXCEPT ![p] = [request EXCEPT !.code = 400]]
                ELSE admin' = [admin EXCEPT ![p] = [request EXCEPT !.pc = "write"]]
    /\ UNCHANGED <<servers, users, server_users, monitor_data, now, tz, pc, gw, call, sus, lv, maint, server_seq, ingest, client>>

\* put, db.session.commit(): the update of the row
PutWrite(p) ==
    /\ admin[p].op = "put"
    /\ admin[p].pc = "write"
    /\ LET server == Server_get_by_id(admin[p].server_id)
       IN  IF server = NoServer \/ UniqueViolation(admin[p].ip_address, admin[p].server_id)
           THEN /\ Answer(p, 500)
                /\ UNCHANGED servers
           ELSE /\ servers' = (servers \ {server}) \cup
                        {[server EXCEPT !.ip_address = admin[p].ip_address]}
                /\ Answer(p, 200)
    /\ UNCHANGED <<users, server_users, monitor_data, now, tz, pc, gw, call, sus, lv, maint, server_seq, ingest, client>>

\* a delete that leaves out filter_by(server_id=server_id)
ServerRowsUnfiltered(store, server_id) == store

\* MonitorData.query.filter_by(server_id=server_id)
ServerRows(store, server_id) ==
    LET OfServer(r) == r.server_id = server_id
    IN  BagFilter(store, OfServer)

\* delete: Server.delete removes the rows of the server, then the server
ServerDelete(p, server_id) ==
    /\ admin[p].pc = "idle"
    /\ pc = "idle"
    /\ LET server == Server_get_by_id(server_id)
           request == [op |-> "delete", pc |-> "done", server_id |-> server_id,
                       ip_address |-> "", code |-> 0]
           gone == ServerRows(monitor_data, server_id)
       IN  IF server = NoServer
           THEN /\ admin' = [admin EXCEPT ![p] = [request EXCEPT !.code = 404]]
                /\ UNCHANGED <<servers, server_users, monitor_data, maint>>
           ELSE /\ monitor_data' = monitor_data (-) gone
                /\ servers' = servers \ {server}
                /\ server_users' = {a \in server_users : a[1] # server_id}
                /\ maint' = [NoMaint EXCEPT !.op = "server_delete",
                                            !.arg = server_id,
                                            !.removed = BagCardinality(gone)]
                /\ admin' = [admin EXCEPT ![p] = [request EXCEPT !.code = 200]]
    /\ UNCHANGED <<users, now, tz, pc, gw, call, sus, lv, server_seq, ingest, client>>

\* the response leaves
Respond(p) ==
    /\ admin[p].pc = "done"
    /\ admin' = [admin EXCEPT ![p] = NoRequest]
    /\ UNCHANGED <<servers, users, server_users, monitor_data, now, tz, pc, gw, call, sus, lv, maint, server_seq, ingest, client>>

InitAdmin ==
    /\ Init
    /\ tz = 0
    /\ server_users = {<<1, 1>>, <<1, 2>>, <<2, 3>>}

NextAdmin ==
    \/ \E p \in Procs, ip \in AdminIPs : PostCheck(p, ip)
    \/ \E p \in Procs : PostWrite(p)
    \/ \E p \in Procs, id \in AdminIds, ip \in AdminIPs : PutCheck(p, id, ip)
    \/ \E p \in Procs : PutWrite(p)
    \/ \E p \in Procs, id \in AdminIds : ServerDelete(p, id)
    \/ \E p \in Procs : Respond(p)

SpecAdmin == InitAdmin /\ [][NextAdmin]_vars

(***************************************************************************)
(* C15: in every reachable state no two servers have the same ip_address,  *)
(* after any sequence of create and update requests, two requests for the  *)
(* same address whose check and write steps interleave included.           *)
(***************************************************************************)
C15_AddressUnique ==
    \A s \in servers, t \in servers : s.ip_address = t.ip_address => s = t

\* two requests wrote the same address after both passed the check: one
\* was answered 200, the other was stopped by the store and answered 500
C15_Witness ==
    \E p \in Procs, q \in Procs :
        /\ admin[p].pc = "done" /\ admin[p].code = 200
        /\ admin[q].pc = "done" /\ admin[q].code = 500
        /\ admin[p].op \in {"post", "put"}
        /\ admin[q].op \in {"post", "put"}
        /\ admin[p].ip_address = admin[q].ip_address
        /\ \E s \in servers : s.ip_address = admin[p].ip_address

(***************************************************************************)
(* The life of a stored sample: rows stored by MonitorData.create_by_ip,   *)
(* the retention purge, and the deletion of servers.                       *)
(***************************************************************************)
InitSamples == InitPurge

NextSamples ==
    \/ \E in \in PurgeStoreInputs : PurgeStore(in[1], in[2])
    \/ \E days \in RetentionInputs : DeleteOldData(days)
    \/ TickDay
    \/ \E p \in Procs, id \in AdminIds : ServerDelete(p, id)
    \/ \E p \in Procs : Respond(p)

SpecSamples == InitSamples /\ [][NextSamples]_vars

\* the rows a step takes out of the store
Removed(r) == CopiesIn(r, monitor_data') < CopiesIn(r, monitor_data)

(***************************************************************************)
(* C16 as stated: a stored sample is removed only by the retention purge:  *)
(* no operation other than delete_old_data removes a sample.               *)
(***************************************************************************)
C16_AsStated ==
    [][\A r \in DOMAIN monitor_data : Removed(r) => maint'.op = "purge"]_vars

(***************************************************************************)
(* C16: a stored sample is immutable and is removed only by the retention  *)
(* purge or by the deletion of its server: a step that removes a sample is *)
(* a delete_old_data that found it older than the cutoff or a              *)
(* Server.delete of the sample's server, and such a step adds and changes  *)
(* no row; every other step keeps every stored row as it is.               *)
(***************************************************************************)
C16_RemovedByPurgeOrServerDelete ==
    [][\A r \in DOMAIN monitor_data :
         Removed(r) =>
            /\ \/ maint'.op = "purge" /\ r.recorded_at < maint'.cutoff
               \/ maint'.op = "server_delete" /\ r.server_id = maint'.arg
            /\ CopiesIn(r, monitor_data') = 0
            /\ monitor_data' \sqsubseteq monitor_data]_vars

\* a server was deleted with its samples, and the samples of the other
\* server are stored
C16_Witness ==
    /\ maint.op = "server_delete"
    /\ maint.removed >= 1
    /\ monitor_data # EmptyBag
    /\ \A r \in DOMAIN monitor_data : r.server_id # maint.arg

(***************************************************************************)
(* The window on the clock that stamps recorded_at: the samples of the     *)
(* entity not older than `minutes` minutes, and the decision the sustained *)
(* check takes on a set of samples.                                        *)
(***************************************************************************)
StampClock == now + tz

StampWindowSamples(ip_address, minutes) ==
    LET Recent(r) == r.ip_address = ip_address /\ r.recorded_at >= StampClock - minutes
    IN  BagFilter(monitor_data, Recent)

DecisionOver(samples, kind, value) ==
    LET n == BagCardinality(samples)
        level == LevelOf(kind, value)
        Over(r) == SampleValue(r, kind) >= DEFAULT_THRESHOLDS[kind][level]
    IN  /\ n >= 3
        /\ level # None
        /\ BagCardinality(BagFilter(samples, Over)) * 10 >= n * 8

(***************************************************************************)
(* C17: the sustained check decides on exactly the entity's samples with   *)
(* recorded_at >= now - window, now read on the clock that stamps          *)
(* recorded_at: its result is the decision over those samples, so an older *)
(* sample never influences it and a sample inside the window always does.  *)
(***************************************************************************)
C17_WindowOnStampClock ==
    pc = "sus_done" =>
        sus.result = DecisionOver(StampWindowSamples(sus.ip, sus.minutes),
                                  sus.metric_type, sus.value)

(***************************************************************************)
(* The end-to-end runs: entity 10.0.0.5 with two recipients and a history  *)
(* of cpu samples inside the last 5 minutes receives a new sample through  *)
(* the ingestion call.                                                     *)
(***************************************************************************)
\* the most rows of the store in the end-to-end runs
MaxScenarioRows == 5

ScenarioIP == "10.0.0.5"

\* the cpu values of the two prior samples of the short history
PriorVals == {60, 95, 97}

\* the cpu values of the histories, oldest first, one sample a minute
Histories == {<<86, 90, 91, 88>>} \cup {<<a, b>> : a, b \in PriorVals}

\* the new samples
ScenarioLoads ==
    {[cpu |-> 92, memory |-> 60, disk |-> 60], [cpu |-> 97, memory |-> 60, disk |-> 60]}

\* a row of the history, stamped by MonitorData.create `age` minutes ago on
\* a host with the offset `offset`
ScenarioRow(cpu_value, age, offset) ==
    [server_id |-> 1, ip_address |-> ScenarioIP, cpu_value |-> cpu_value,
     memory_value |-> 60, disk_value |-> 60, recorded_at |-> (now + offset) - age]

ScenarioStore(h, offset) ==
    SetToBag({ScenarioRow(h[i], Len(h) + 1 - i, offset) : i \in 1..Len(h)})

InitScenario ==
    /\ Init
    /\ server_users = {<<1, 1>>, <<1, 2>>, <<2, 3>>}

ScenarioHistory ==
    /\ pc = "idle"
    /\ monitor_data = EmptyBag
    /\ \E h \in Histories : monitor_data' = ScenarioStore(h, tz)
    /\ UNCHANGED <<servers, users, server_users, now, tz, pc, gw, call, sus, lv, maint, admin, server_seq, ingest, client>>

ScenarioIngest(metrics) ==
    /\ monitor_data # EmptyBag
    /\ BagCardinality(monitor_data) < MaxScenarioRows
    /\ IngestCall(ScenarioIP, metrics)

NextScenario ==
    \/ ScenarioHistory
    \/ \E m \in ScenarioLoads : ScenarioIngest(m)
    \/ GwAlert
    \/ AlertSustained
    \/ \E smtp \in SmtpOutcomes : AlertSend(smtp)
    \/ AlertReturn
    \/ GwReturn

SpecScenario == InitScenario /\ [][NextScenario]_vars

\* the store after the new sample joined the history h
StoreAfter(h, cpu_value) ==
    ScenarioStore(h, tz) (+) SetToBag({NewRow(1, ScenarioIP, cpu_value, 60, 60)})

\* the cpu evaluation of the ingestion call is over and no store error occurred
CpuCallOver ==
    /\ CallOver
    /\ call.caller = "gateway"
    /\ call.metric_type = "cpu"

(***************************************************************************)
(* C18: end to end, the entity with 4 prior cpu samples inside the last 5  *)
(* minutes at 86, 90, 91, 88 and 2 recipients receives a cpu sample of 92: *)
(* the level is critical, the sustained check returns true, both           *)
(* recipients get one critical-level delivery attempt, and the new sample  *)
(* is stored.                                                              *)
(***************************************************************************)
C18_ScenarioDelivers ==
    (CpuCallOver /\ call.value = 92 /\ monitor_data = StoreAfter(<<86, 90, 91, 88>>, 92))
        => /\ call.alert_level = "critical"
           /\ call.sustained
           /\ Len(call.attempts) = 2
           /\ {call.attempts[i].user : i \in 1..Len(call.attempts)} = {1, 2}
           /\ \A i \in 1..Len(call.attempts) : call.attempts[i].level = "critical"
           /\ GwSampleStored(gw, monitor_data)

\* the entity had the two prior samples a and b, both inside the window, and
\* the new cpu sample of 97 is stored and evaluated
TwoPriors(a, b) ==
    /\ CpuCallOver
    /\ call.value = 97
    /\ monitor_data = StoreAfter(<<a, b>>, 97)

(***************************************************************************)
(* C19 as stated: for an entity with only 2 prior samples in the window,   *)
(* ingesting 97 stores the sample, the sustained check returns false and   *)
(* no delivery is attempted, whatever the values of the 2 prior samples.   *)
(***************************************************************************)
C19_AsStated ==
    \A a \in PriorVals, b \in PriorVals :
        TwoPriors(a, b) =>
            /\ GwSampleStored(gw, monitor_data)
            /\ ~call.sustained
            /\ call.attempts = <<>>

(***************************************************************************)
(* C19: for an entity whose only stored samples are 2 prior samples in the *)
(* window, ingesting 97 stores the sample before the check runs, so the    *)
(* check no longer fails for insufficient history; a delivery is attempted *)
(* only if the check returned true, and it returns true only if both prior *)
(* samples are at or over the emergency boundary: with a prior sample      *)
(* below it the check returns false and no delivery is attempted.          *)
(***************************************************************************)
C19_DeliveryOnlyIfBothPriorsEmergency ==
    \A a \in PriorVals, b \in PriorVals :
        TwoPriors(a, b) =>
            /\ GwSampleStored(gw, monitor_data)
            /\ call.attempts # <<>> => call.sustained
            /\ call.sustained =>
                  /\ a >= DEFAULT_THRESHOLDS.cpu.emergency
                  /\ b >= DEFAULT_THRESHOLDS.cpu.emergency

\* two prior samples at emergency and the new sample of 97: the check
\* returned true and both recipients were tried
C19_Witness ==
    /\ \E a \in PriorVals, b \in PriorVals : TwoPriors(a, b)
    /\ call.sustained
    /\ Len(call.attempts) = 2

(***************************************************************************)
(* check_sustained_alert_by_ip called without `minutes`: the parameter     *)
(* takes the default of the signature.  The clock moves in steps shorter   *)
(* than the 5-minute window.                                               *)
(***************************************************************************)
\* minutes between two observations of the clock in these runs
DefaultTickSteps == {3}

DirectSustainedDefault(ip_address, metric_type, value) ==
    /\ pc = "idle"
    /\ sus' = [ip |-> ip_address, metric_type |-> metric_type, value |-> value,
               minutes |-> DefaultMinutes, explicit |-> FALSE,
               result |-> check_sustained_alert_by_ip(ip_address, metric_type,
                                                      value, DefaultMinutes)]
    /\ pc' = "sus_done"
    /\ UNCHANGED <<servers, users, server_users, monitor_data, now, tz, gw, call, lv, maint, admin, server_seq, ingest, client>>

InitDefault ==
    /\ InitSustained
    /\ tz = 0

NextDefault ==
    \/ \E x \in StoreInputs : Store(x[1], x[2])
    \/ \E ip \in IPs, k \in MetricTypes, v \in Vals : DirectSustainedDefault(ip, k, v)
    \/ SustainedReturn
    \/ \E d \in DefaultTickSteps : Tick(d)

SpecDefault == InitDefault /\ [][NextDefault]_vars

(***************************************************************************)
(* C20: check_sustained_alert_by_ip called without an explicit window uses *)
(* a window of 5 minutes: its result is the result of the call with        *)
(* minutes=5.                                                              *)
(***************************************************************************)
C20_DefaultWindowFiveMinutes ==
    (pc = "sus_done" /\ ~sus.explicit) =>
        /\ sus.minutes = 5
        /\ sus.result = check_sustained_alert_by_ip(sus.ip, sus.metric_type,
                                                    sus.value, 5)

(***************************************************************************)
(* Concurrent ingestion: MonitorData.create_by_ip run by two requests at a *)
(* time.  The lookup of the server and the insert of the row are two       *)
(* steps; the insert carries the server id the lookup found.               *)
(***************************************************************************)
\* the most rows the concurrent calls commit
MaxIngestWrites == 3

\* the values the concurrent calls carry
IngestLoads ==
    {[cpu |-> 60, memory |-> 60, disk |-> 60], [cpu |-> 97, memory |-> 60, disk |-> 85]}

\* the foreign key monitor_data.server_id -> servers.id: a store that
\* enforces it refuses the row, a store that does not (SQLite without
\* PRAGMA foreign_keys, the default DATABASE_URL) takes it
ForeignKeyEnforced == BOOLEAN

\* create_by_ip, lines 486-488: Server.get_by_ip and the ValueError
IngestLookup(p, ip_address, metrics) ==
    /\ pc = "idle"
    /\ ingest.req[p].pc = "idle"
    /\ LET server == Server_get_by_ip(ip_address)
           r == [NoIngestCall EXCEPT !.ip_address = ip_address, !.metrics = metrics]
       IN  IF server = NoServer
           THEN ingest' = [ingest EXCEPT !.req[p] =
                              [r EXCEPT !.pc = "done", !.error = "ValueError"]]
           ELSE ingest' = [ingest EXCEPT !.req[p] =
                              [r EXCEPT !.pc = "write", !.server_id = server.id]]
    /\ maint' = NoMaint
    /\ UNCHANGED <<servers, users, server_users, monitor_data, now, tz, pc, gw, call, sus, lv, admin, server_seq, client>>

\* create_by_ip, line 490: MonitorData.create with the server id of the lookup
IngestWrite(p) ==
    /\ ingest.req[p].pc = "write"
    /\ ingest.written < MaxIngestWrites
    /\ LET r == ingest.req[p]
       IN  \E fk \in ForeignKeyEnforced :
              IF fk /\ Server_get_by_id(r.server_id) = NoServer
              THEN /\ ingest' = [ingest EXCEPT !.req[p].pc = "done",
                                               !.req[p].error = "IntegrityError"]
                   /\ UNCHANGED monitor_data
              ELSE /\ MonitorData_create(r.server_id, r.ip_address, r.metrics.cpu,
                                         r.metrics.memory, r.metrics.disk)
                   /\ ingest' = [ingest EXCEPT !.req[p].pc = "done",
                                               !.req[p].during = maint.op,
                                               !.written = @ + 1]
    /\ maint' = NoMaint
    /\ UNCHANGED <<servers, users, server_users, now, tz, pc, gw, call, sus, lv, admin, server_seq, client>>

\* the call is over
IngestReturn(p) ==
    /\ ingest.req[p].pc = "done"
    /\ ingest' = [ingest EXCEPT !.req[p] = NoIngestCall]
    /\ UNCHANGED <<servers, users, server_users, monitor_data, now, tz, pc, gw, call, sus, lv, maint, admin, server_seq, client>>

InitIngest ==
    /\ InitSustained
    /\ tz = 0

NextIngest ==
    \/ \E p \in Procs, ip \in IPs, m \in IngestLoads : IngestLookup(p, ip, m)
    \/ \E p \in Procs : IngestWrite(p)
    \/ \E p \in Procs : IngestReturn(p)

SpecIngest == InitIngest /\ [][NextIngest]_vars

\* the row a create_by_ip call commits
RowOf(r) ==
    NewRow(r.server_id, r.ip_address, r.metrics.cpu, r.metrics.memory, r.metrics.disk)

\* the call of p committed its row in this step
Wrote(p) ==
    /\ ingest.req[p].pc = "write"
    /\ ingest'.req[p].pc = "done"
    /\ ingest'.req[p].error = ""

(***************************************************************************)
(* C21: samples are append-only under concurrency: for any interleaving of *)
(* ingestion calls for the same entity and for different entities, every   *)
(* call that commits adds exactly its own row and no step loses, changes   *)
(* or merges a stored row, so the store holds what it held before plus one *)
(* row per committed call.                                                 *)
(***************************************************************************)
C21_AppendOnly ==
    [][/\ monitor_data \sqsubseteq monitor_data'
       /\ \A p \in Procs :
             Wrote(p) => monitor_data' = monitor_data (+) SetToBag({RowOf(ingest.req[p])})
       /\ (\A p \in Procs : ~Wrote(p)) => monitor_data' = monitor_data
       /\ BagCardinality(monitor_data') = ingest'.written]_vars

\* two interleaved calls for the same entity with equal values at the same
\* clock reading both committed: two equal rows are stored
C21_Witness ==
    /\ ingest.req[1].pc = "done" /\ ingest.req[1].error = ""
    /\ ingest.req[2].pc = "done" /\ ingest.req[2].error = ""
    /\ ingest.req[1].ip_address = ingest.req[2].ip_address
    /\ ingest.req[1].metrics = ingest.req[2].metrics
    /\ CopiesIn(RowOf(ingest.req[1]), monitor_data) >= 2
    /\ ingest.written >= 2

(***************************************************************************)
(* The monitoring client: MonitorClient.run loops over collect_and_send    *)
(* and the sleep; collect_and_send builds a new batch in every round and   *)
(* hands it to send_batch_data.  The batches are numbered by the round     *)
(* that collected them; the loop goes on after round MaxRounds, its later  *)
(* batches all carrying the number MaxRounds + 1 and not being followed.   *)
(***************************************************************************)
\* the rounds of the client loop whose batches are followed
MaxRounds == 4

\* what a submission meets: the branches of send_batch_data
SendOutcomes == {"ok", "timeout", "connection_error", "http_error", "code_nonzero"}

\* collect_and_send, lines 231-250: the collectors fill a new dict; when
\* every collector failed nothing is submitted in this round
ClientCollect(collected) ==
    /\ client.pc = "sleep"
    /\ client' = [client EXCEPT !.batch = IF @ < MaxRounds THEN @ + 1
                                         ELSE MaxRounds + 1,
                                !.pc = IF collected THEN "send" ELSE "sleep",
                                !.outcome = "", !.ret = FALSE]
    /\ UNCHANGED <<servers, users, server_users, monitor_data, now, tz, pc, gw, call, sus, lv, maint, admin, server_seq, ingest>>

\* send_batch_data: True only for status 200 with code 0
send_batch_data(outcome) == outcome = "ok"

\* lines 252-254 and the loop of run: the batch is submitted once, the value
\* of send_batch_data is not read, and the round ends with the sleep
ClientSend(outcome) ==
    /\ client.pc = "send"
    /\ LET b == client.batch
           ok == send_batch_data(outcome)
           followed == b <= MaxRounds
       IN  client' = [client EXCEPT
                        !.pc = "sleep", !.outcome = outcome, !.ret = ok,
                        !.sends = IF followed THEN @ + 1 ELSE @,
                        !.resent = IF b \in client.failed \cup client.delivered
                                   THEN @ \cup {b} ELSE @,
                        !.failed = IF ok \/ ~followed THEN @ ELSE @ \cup {b},
                        !.delivered = IF ok /\ followed THEN @ \cup {b} ELSE @]
    /\ UNCHANGED <<servers, users, server_users, monitor_data, now, tz, pc, gw, call, sus, lv, maint, admin, server_seq, ingest>>

InitClient ==
    /\ InitSustained
    /\ tz = 0

NextClient ==
    \/ \E collected \in BOOLEAN : ClientCollect(collected)
    \/ \E outcome \in SendOutcomes : ClientSend(outcome)

\* the loop of run goes on as long as the process lives
SpecClient == InitClient /\ [][NextClient]_vars /\ WF_vars(NextClient)

(***************************************************************************)
(* C22: the monitoring client retries: a batch whose submission failed     *)
(* (timeout, connection error, non-200 status or non-zero code) is         *)
(* eventually submitted again by the client rather than dropped.           *)
(***************************************************************************)
C22_FailedBatchResubmitted ==
    \A b \in 1..MaxRounds : (b \in client.failed) ~> (b \in client.resent)

\* the call is over for a current value at emergency while fewer than 80%
\* of the window samples are at or over the emergency boundary
EmergencyNotSustained ==
    /\ CallOver
    /\ LevelOf(call.metric_type, call.value) = "emergency"
    /\ 10 * CountAtOrOver(call.ip, AlertMinutes, call.metric_type,
                          DEFAULT_THRESHOLDS[call.metric_type].emergency)
         < 8 * BagCardinality(WindowSamples(call.ip, AlertMinutes))

(***************************************************************************)
(* C23: the sustained check counts the window samples against the single   *)
(* boundary of the current value's level: when the current value is at     *)
(* emergency and fewer than 80% of the window samples are >= the emergency *)
(* boundary, the check returns false and no alert of any level is sent,    *)
(* even if every window sample is >= the critical or warning boundary.     *)
(***************************************************************************)
C23_CountedAgainstCurrentLevel ==
    EmergencyNotSustained =>
        /\ ~call.sustained
        /\ call.attempts = <<>>

\* three samples in the window, all at or over the critical boundary, one
\* of them at emergency: the check ran for the emergency value, returned
\* false, and nobody was tried
C23_Witness ==
    /\ EmergencyNotSustained
    /\ call.checked
    /\ call.alert_users # <<>>
    /\ BagCardinality(WindowSamples(call.ip, AlertMinutes)) = 3
    /\ CountAtOrOver(call.ip, AlertMinutes, call.metric_type,
                     DEFAULT_THRESHOLDS[call.metric_type].critical) = 3
    /\ ~call.sustained
    /\ call.attempts = <<>>

(***************************************************************************)
(* Ingestion next to maintenance: concurrent create_by_ip calls, the       *)
(* deletion of servers and the retention purge.                            *)
(***************************************************************************)
\* the process that serves the delete requests in these runs, and the
\* process that serves the ingestion calls
RaceAdmin == 1

RaceIngest == 2

\* the addresses and the values of the calls in these runs
RaceIPs == {"10.0.0.5", "10.0.0.6"}

RaceLoads == {[cpu |-> 86, memory |-> 86, disk |-> 92]}

\* the retention period of the purge in these runs
RaceRetention == 1

InitRace == InitIngest

NextRace ==
    \/ \E ip \in RaceIPs, m \in RaceLoads : IngestLookup(RaceIngest, ip, m)
    \/ IngestWrite(RaceIngest)
    \/ IngestReturn(RaceIngest)
    \/ \E id \in AdminIds : ServerDelete(RaceAdmin, id)
    \/ Respond(RaceAdmin)
    \/ DeleteOldData(RaceRetention)
    \/ TickDay

SpecRace == InitRace /\ [][NextRace]_vars

(***************************************************************************)
(* C24: every stored sample belongs to exactly one existing entity: in     *)
(* every reachable state each sample's server_id refers to a stored        *)
(* server, after any sequence of ingestion, server deletion and purge, an  *)
(* ingestion whose lookup and write are interleaved with a deletion of the *)
(* entity included.                                                        *)
(***************************************************************************)
C24_SampleHasServer ==
    \A r \in DOMAIN monitor_data : \E s \in servers : s.id = r.server_id

(***************************************************************************)
(* Recipients: User.delete and Server.update_users change the association  *)
(* table, and check_and_send_alert_by_ip reads it.  Both servers hold      *)
(* three samples at emergency, so every alert called is sustained.         *)
(***************************************************************************)
\* the user ids of the delete requests; 9 is the id of no user
DeleteIds == {1, 2, 3, 9}

\* the user_ids lists of the update_users calls
UserIdLists == {<<>>, <<1>>, <<1, 2>>, <<2, 9>>, <<3, 3>>, <<2, 2>>}

\* the associations at the start: user 2 is a recipient of both servers,
\* user 1 of one, user 3 of none
RecipientAssociations == {<<1, 1>>, <<1, 2>>, <<2, 2>>}

RecipientStore ==
    [r \in {NewRow(1, "10.0.0.5", 97, 60, 60), NewRow(2, "10.0.0.6", 97, 60, 60)} |-> 3]

\* User.get_by_id
User_get_by_id(user_id) == {u \in users : u.id = user_id}

\* user.servers, in the order of the server ids
RECURSIVE OrderedIds(_)
OrderedIds(S) ==
    IF S = {} THEN <<>>
    ELSE LET least == CHOOSE x \in S : \A y \in S : x <= y
         IN  <<least>> \o OrderedIds(S \ {least})

\* lines 170-171: `for server in user.servers: server.users.remove(user)`.
\* The backref takes the server out of user.servers, the list the loop is
\* walking, so the loop reaches every second server only
LoopRemoved(user_servers) ==
    {user_servers[i] : i \in {j \in 1..Len(user_servers) : j % 2 = 1}}

\* a delete that leaves the rows of the association table alone
session_delete_user_passive(assoc, user_id) == assoc

\* db.session.delete(user): the unit of work deletes the rows of the
\* secondary table that still name the deleted user
session_delete_user(assoc, user_id) == {a \in assoc : a[2] # user_id}

\* User.delete
UserDelete(user_id) ==
    /\ pc = "idle"
    /\ LET user == User_get_by_id(user_id)
           user_servers == OrderedIds({a[1] : a \in {b \in server_users : b[2] = user_id}})
           after_loop == {a \in server_users :
                             ~(a[2] = user_id /\ a[1] \in LoopRemoved(user_servers))}
       IN  IF user = {}
           THEN /\ maint' = [NoMaint EXCEPT !.op = "user_delete", !.arg = user_id,
                                            !.ret = <<FALSE>>]
                /\ UNCHANGED <<users, server_users>>
           ELSE /\ server_users' = session_delete_user(after_loop, user_id)
                /\ users' = users \ user
                /\ maint' = [NoMaint EXCEPT !.op = "user_delete", !.arg = user_id,
                                            !.removed = Len(user_servers),
                                            !.ret = <<TRUE>>]
    /\ UNCHANGED <<servers, monitor_data, now, tz, pc, gw, call, sus, lv, admin, server_seq, ingest, client>>

\* the ids of user_ids that name a user, in the order of the list: the
\* users the loop of lines 364-368 appends to server.users
RECURSIVE Appended(_)
Appended(user_ids) ==
    IF user_ids = <<>> THEN <<>>
    ELSE (IF User_get_by_id(Head(user_ids)) = {} THEN <<>> ELSE <<Head(user_ids)>>)
            \o Appended(Tail(user_ids))

\* the flush inserts one row of server_users for every entry of server.users
\* that the committed collection did not hold; two entries for one user are
\* two rows with one primary key (server_id, user_id)
DuplicateKey(appended, original) ==
    \E i \in 1..Len(appended), j \in 1..Len(appended) :
        i < j /\ appended[i] = appended[j] /\ appended[i] \notin original

\* Server.update_users.  `flushed`: a User.get_by_id of the loop had to query
\* the store and the session flushed the cleared collection before it
UpdateUsers(server_id, user_ids, flushed) ==
    /\ pc = "idle"
    /\ LET server == Server_get_by_id(server_id)
           committed == {a[2] : a \in {b \in server_users : b[1] = server_id}}
           original == IF flushed THEN {} ELSE committed
           appended == Appended(user_ids)
           call_of == [NoMaint EXCEPT !.op = "update_users", !.arg = server_id,
                                      !.ids = user_ids]
       IN  IF server = NoServer
           THEN /\ maint' = call_of
                /\ UNCHANGED server_users
           ELSE IF DuplicateKey(appended, original)
           THEN /\ maint' = [call_of EXCEPT !.error = "IntegrityError"]
                /\ UNCHANGED server_users
           ELSE /\ server_users' = {a \in server_users : a[1] # server_id} \cup
                       {<<server_id, appended[i]>> : i \in 1..Len(appended)}
                /\ maint' = [call_of EXCEPT !.ret = <<TRUE>>]
    /\ UNCHANGED <<servers, users, monitor_data, now, tz, pc, gw, call, sus, lv, admin, server_seq, ingest, client>>

\* the alerts called in these runs
RecipientAlert(ip_address) == DirectAlert(ip_address, "cpu", 97)

InitRecipients ==
    /\ servers = InitServers
    /\ users = InitUsers
    /\ server_users = RecipientAssociations
    /\ now = 0
    /\ tz = 0
    /\ monitor_data = RecipientStore
    /\ pc = "idle"
    /\ gw = NoGw
    /\ call = NoCall
    /\ sus = NoSus
    /\ lv = NoLv
    /\ maint = NoMaint
    /\ admin = NoAdmin
    /\ server_seq = 3
    /\ ingest = NoIngest
    /\ client = NoClient

NextRecipients ==
    \/ \E id \in DeleteIds : UserDelete(id)
    \/ \E sid \in AdminIds, ids \in UserIdLists, flushed \in BOOLEAN :
          UpdateUsers(sid, ids, flushed)
    \/ \E ip \in RaceIPs : RecipientAlert(ip)
    \/ AlertSustained
    \/ \E smtp \in SmtpOutcomes : AlertSend(smtp)
    \/ AlertReturn

SpecRecipients == InitRecipients /\ [][NextRecipients]_vars

\* User.delete returned True and nothing has changed the tables since
UserDeleted == maint.op = "user_delete" /\ maint.ret = <<TRUE>>

(***************************************************************************)
(* C25: after User.delete(user_id) returned true the deleted user is in no *)
(* entity's recipient set, however many entities the user was associated   *)
(* with, and a later alert for any of those entities attempts no delivery  *)
(* to the deleted user.                                                    *)
(***************************************************************************)
C25_DeletedUserNoRecipient ==
    UserDeleted =>
        /\ \A a \in server_users : a[2] # maint.arg
        /\ \A u \in users : u.id # maint.arg
        /\ \A i \in 1..Len(call.alert_users) : call.alert_users[i].id # maint.arg
        /\ \A i \in 1..Len(call.attempts) : call.attempts[i].user # maint.arg

\* the user of two servers was deleted, and a later alert for one of them
\* tried the recipient that is left
C25_Witness ==
    /\ UserDeleted
    /\ maint.removed = 2
    /\ pc = "alert_done"
    /\ call.sustained
    /\ Len(call.attempts) = 1

\* the recipient ids of a server in an association table
RecipientIds(assoc, server_id) == {a[2] : a \in {b \in assoc : b[1] = server_id}}

\* this step is a call of Server.update_users for a stored server
UpdateUsersStep ==
    /\ maint'.op = "update_users"
    /\ <<maint, server_users>>' # <<maint, server_users>>
    /\ Server_get_by_id(maint'.arg) # NoServer

(***************************************************************************)
(* C26: Server.update_users(server_id, user_ids) replaces the recipient    *)
(* set: afterwards the recipient set of the server is exactly the set of   *)
(* existing users whose id occurs in user_ids (empty for an empty list),   *)
(* also when an id occurs more than once, and the recipient sets of the    *)
(* other servers are unchanged.                                            *)
(***************************************************************************)
C26_RecipientsReplaced ==
    [][UpdateUsersStep =>
         /\ maint'.error = ""
         /\ RecipientIds(server_users', maint'.arg) =
               {u.id : u \in {v \in users :
                                \E i \in 1..Len(maint'.ids) : maint'.ids[i] = v.id}}
         /\ {a \in server_users' : a[1] # maint'.arg} =
               {a \in server_users : a[1] # maint'.arg}]_vars

\* the call is over for a stored entity with at least one recipient, and no
\* internal error occurred
CallOverWithRecipients ==
    /\ CallOver
    /\ EntitiesAt(call.ip) # {}
    /\ RecipientsAt(call.ip) # {}

(***************************************************************************)
(* C27: for an existing entity with at least one recipient,                *)
(* check_and_send_alert_by_ip returns true without attempting any delivery *)
(* when the value is below all thresholds or when the exceedance is not    *)
(* sustained; it returns false only when the entity is unknown, has no     *)
(* recipients, an internal error occurred, or every attempted delivery     *)
(* failed.                                                                 *)
(***************************************************************************)
C27_ReturnValue ==
    /\ (CallOverWithRecipients
          /\ (LevelOf(call.metric_type, call.value) = None
                \/ ~AlertDecided(call.ip, call.metric_type, call.value)))
         => (call.status = "returned" /\ call.ret /\ call.attempts = <<>>)
    /\ (pc = "alert_done" /\ ~call.ret)
         => \/ EntitiesAt(call.ip) = {}
            \/ RecipientsAt(call.ip) = {}
            \/ call.error # ""
            \/ (call.attempts # <<>> /\ Succeeded = {})

\* an exceedance that is not sustained, for an entity with recipients: the
\* call returned true and tried nobody
C27_Witness ==
    /\ CallOverWithRecipients
    /\ LevelOf(call.metric_type, call.value) # None
    /\ call.checked
    /\ ~call.sustained
    /\ call.ret
    /\ call.attempts = <<>>

(***************************************************************************)
(* Ingestion next to server updates: create_by_ip calls and put requests   *)
(* that change the ip_address of a server.                                 *)
(***************************************************************************)
InitAddress == InitIngest

NextAddress ==
    \/ \E ip \in IPs, m \in RaceLoads : IngestLookup(RaceIngest, ip, m)
    \/ IngestWrite(RaceIngest)
    \/ IngestReturn(RaceIngest)
    \/ \E id \in AdminIds, ip \in AdminIPs : PutCheck(RaceAdmin, id, ip)
    \/ PutWrite(RaceAdmin)
    \/ Respond(RaceAdmin)

SpecAddress == InitAddress /\ [][NextAddress]_vars

(***************************************************************************)
(* C28: in every reachable state the address stored redundantly on a       *)
(* sample equals the current address of the sample's server                *)
(* (sample.ip_address = server.ip_address for the sample's server_id),     *)
(* after any sequence of ingestion and server update operations, an update *)
(* that changes the address included.                                      *)
(***************************************************************************)
C28_SampleAddressCurrent ==
    \A r \in DOMAIN monitor_data :
        \A sv \in servers : sv.id = r.server_id => r.ip_address = sv.ip_address

\* this step is a call of delete_old_data
PurgeStep ==
    /\ maint'.op = "purge"
    /\ <<maint, monitor_data>>' # <<maint, monitor_data>>

AlertLevels == {"warning", "critical", "emergency"}

C30_MessageBoundary ==
    /\ \A kind \in MetricTypes, level \in AlertLevels :
          get_threshold_by_level(level, kind) = DEFAULT_THRESHOLDS[kind][level]
    /\ \A i \in 1..Len(call.attempts) :
          LET message == call.attempts[i].message
              thresholds == DEFAULT_THRESHOLDS[call.metric_type]
              alert_level == determine_alert_level(call.value, thresholds)
          IN  /\ message.template = alert_level
              /\ message.subject = alert_level
              /\ message.metric_type = call.metric_type
              /\ message.value = call.value
              /\ message.threshold = thresholds[alert_level]
              /\ call.sustained
              /\ RatioReached(
                    SustainedCount(
                        MonitorData_get_by_ip(call.ip, now - AlertMinutes),
                        call.metric_type, message.threshold),
                    BagCardinality(
                        MonitorData_get_by_ip(call.ip, now - AlertMinutes)))

\* a critical alert was handed to the mail server: its message names
\* "critical" and carries a boundary above the warning one
C30_Witness ==
    /\ Len(call.attempts) >= 1
    /\ call.attempts[1].message.template = "critical"
    /\ call.attempts[1].message.threshold
          > DEFAULT_THRESHOLDS[call.metric_type]["warning"]

====
